---- MODULE Spec2Model ----
(***************************************************************************)
(* Model of the NetworkedPortentaIOC gateway: the EPICS IOC that mirrors   *)
(* an Arduino Portenta Machine Control over a line-oriented TCP protocol.  *)
(*                                                                         *)
(* Two iterations of the IOC are modelled side by side, selected by the    *)
(* variable impl:                                                          *)
(*   "v1"  src/NetworkedPortentaIOC.py     module functions portenta_read, *)
(*         portenta_write, connection; one scan (update_hook) that polls   *)
(*         every pin in update_pin_status.                                 *)
(*   "v2"  src/NetworkedPortentaIOC_v2.py  class PortentaClient; one scan  *)
(*         callback per channel.                                           *)
(*                                                                         *)
(* The callbacks are coroutines of one event loop.  A coroutine keeps the  *)
(* loop's only thread from one await to the next; the socket calls are     *)
(* blocking calls with no await, so the variable running names the task    *)
(* that holds the thread while an exchange is under way.  The hosting      *)
(* framework's part (a scan callback is called again after its period, an  *)
(* exception it raises is logged and raises the SCAN alarm of its          *)
(* pvproperty; a putter that returns lets the written value be stored, a   *)
(* putter that raises leaves the value and raises the WRITE alarm) is      *)
(* modelled where the source invokes it.                                   *)
(***************************************************************************)
EXTENDS Integers, Sequences, FiniteSets, TLC

\* ------------------------------------------------------------------ bounds
\* Pins modelled per digital bus (DO, DI, DIO); the source declares 8.
NDigital == 2
\* Pins modelled on the analog output bus; the source declares 4.
NAnalogOut == 1
\* Pins polled on the analog input and temperature buses; the source polls 3.
NAnalogIn == 1
\* Timer firings plus client puts in one behaviour.
MaxEvents == 2
\* Exchanges in one behaviour in which the controller or the network misbehaves
\* (refuses, breaks the connection, stays silent, answers with a malformed line).
MaxFaults == 1
\* The largest start_index and count create_pvproperties is called with.
MaxStart == 1
MaxCount == 3

VARIABLES
    impl,      \* "v1" | "v2": the iteration of the IOC that runs
    cache,     \* pvproperty -> [val, alarm]: the value and alarm served to clients
    pc,        \* task -> where the task stands
    req,       \* task -> the request of the exchange the task is in
    resp,      \* task -> what the controller does with that request
    loc,       \* the loop variables of update_pin_status (v1)
    running,   \* the task that holds the event loop's thread, or Nobody
    conns,     \* tasks whose connection the controller has accepted and not seen closed
    events,    \* timer firings and client puts so far
    faults,    \* exchanges so far in which the controller or the network misbehaved
    dev,       \* <<bus, pin>> -> the value the controller was last SET to, -1 if never
    last,      \* the exchange that ended last, for stating the properties
    unclosed,  \* sockets the exchanges so far connected and left without close()
    build      \* the construction of the catalog: class body and create_pvproperties

vars == <<impl, cache, pc, req, resp, loc, running, conns, events, faults, dev, last,
          unclosed, build>>

\* ------------------------------------------------------------ Python values
\* A Python value: ty names its type, n its number, s its text.
PyStr(chars) == [ty |-> "str", n |-> 0, s |-> chars]
PyInt(k) == [ty |-> "int", n |-> k, s |-> <<>>]
PyFloat(k) == [ty |-> "float", n |-> k, s |-> <<>>]
PyBool(b) == [ty |-> "bool", n |-> IF b THEN 1 ELSE 0, s |-> <<>>]
\* The value a pvproperty declared without value= starts with.
InitVal == [ty |-> "default", n |-> 0, s |-> <<>>]

\* ---------------------------------------------------------------- wire codec
Whitespace == {" ", "\n", "\t", "\r"}
Digits == {"0", "1", "2", "3", "4", "5", "6", "7", "8", "9"}
DigitChars == <<"0", "1", "2", "3", "4", "5", "6", "7", "8", "9">>
DigitVal(c) ==
    CASE c = "0" -> 0 [] c = "1" -> 1 [] c = "2" -> 2 [] c = "3" -> 3
      [] c = "4" -> 4 [] c = "5" -> 5 [] c = "6" -> 6 [] c = "7" -> 7
      [] c = "8" -> 8 [] c = "9" -> 9

RECURSIVE LStrip(_)
LStrip(s) ==
    IF s # <<>> /\ Head(s) \in Whitespace THEN LStrip(Tail(s)) ELSE s

RECURSIVE RStrip(_)
RStrip(s) ==
    IF s # <<>> /\ s[Len(s)] \in Whitespace
    THEN RStrip(SubSeq(s, 1, Len(s) - 1))
    ELSE s

\* str.strip()
Strip(s) == RStrip(LStrip(s))

\* str.split(' '): cut at every single space; the empty text gives [''].
RECURSIVE SplitOn(_, _, _)
SplitOn(s, seps, cur) ==
    IF s = <<>> THEN <<cur>>
    ELSE IF Head(s) \in seps
         THEN <<cur>> \o SplitOn(Tail(s), seps, <<>>)
         ELSE SplitOn(Tail(s), seps, Append(cur, Head(s)))

SplitSpace(s) == SplitOn(s, {" "}, <<>>)

\* str.split(): cut at runs of whitespace; no empty tokens, [] for blank text.
SplitWhitespace(s) ==
    LET parts == SplitOn(s, Whitespace, <<>>)
    IN  SelectSeq(parts, LAMBDA p : p # <<>>)

\* float(token) succeeds on a decimal numeral (the numerals the lines modelled hold).
IsNumeral(tok) == tok # <<>> /\ \A i \in 1..Len(tok) : tok[i] \in Digits

RECURSIVE NumeralVal(_)
NumeralVal(tok) ==
    IF tok = <<>> THEN 0
    ELSE 10 * NumeralVal(SubSeq(tok, 1, Len(tok) - 1)) + DigitVal(tok[Len(tok)])

\* portenta_read's decoding (v1): the last space-separated token, as text.
DecodeV1(line) ==
    LET toks == SplitSpace(Strip(line))
    IN  [err |-> "", val |-> PyStr(toks[Len(toks)])]

\* PortentaClient.read's decoding (v2): float(response.strip().split()[-1]).
DecodeV2(line) ==
    LET toks == SplitWhitespace(Strip(line))
    IN  IF toks = <<>> THEN [err |-> "IndexError", val |-> InitVal]
        ELSE IF ~IsNumeral(toks[Len(toks)])
             THEN [err |-> "ValueError", val |-> InitVal]
             ELSE [err |-> "", val |-> PyFloat(NumeralVal(toks[Len(toks)]))]

\* The acknowledgment test of both iterations: response != "OK".
AckOK(line) == line = <<"O", "K">>

\* str.lower() on the letters the write values hold.
LowerChar(c) ==
    CASE c = "O" -> "o" [] c = "N" -> "n" [] c = "F" -> "f" [] c = "T" -> "t"
      [] c = "R" -> "r" [] c = "U" -> "u" [] c = "E" -> "e" [] OTHER -> c

Lower(s) == [i \in 1..Len(s) |-> LowerChar(s[i])]

\* The value conversion at the head of portenta_write (v1).
CoerceV1(v) ==
    IF v.ty = "str"
    THEN IF v.s \in {<<"O", "n">>, <<"O", "N">>, <<"o", "n">>, <<"1">>,
                     <<"T", "r", "u", "e">>, <<"t", "r", "u", "e">>}
         THEN PyInt(1) ELSE PyInt(0)
    ELSE v

\* The value conversion at the head of PortentaClient.write (v2).
CoerceV2(v) ==
    IF v.ty = "str"
    THEN IF Lower(v.s) \in {<<"o", "n">>, <<"1">>, <<"t", "r", "u", "e">>}
         THEN PyInt(1) ELSE PyInt(0)
    ELSE v

\* str() of a non-negative int.
RECURSIVE IntText(_)
IntText(k) ==
    IF k < 10 THEN <<DigitChars[k + 1]>>
    ELSE IntText(k \div 10) \o <<DigitChars[(k % 10) + 1]>>

\* How an f-string renders a value: str(value).
Render(v) ==
    CASE v.ty = "int" -> IntText(v.n)
      [] v.ty = "float" -> IntText(v.n) \o <<".", "0">>
      [] v.ty = "bool" -> IF v.n = 1 THEN <<"T", "r", "u", "e">>
                          ELSE <<"F", "a", "l", "s", "e">>
      [] OTHER -> v.s

BusText(bus) ==
    CASE bus = "DO" -> <<"D", "O">> [] bus = "DI" -> <<"D", "I">>
      [] bus = "DIO" -> <<"D", "I", "O">> [] bus = "AO" -> <<"A", "O">>
      [] bus = "AI" -> <<"A", "I">>
      [] bus = "SENSOR temp" ->
           <<"S", "E", "N", "S", "O", "R", " ", "t", "e", "m", "p">>

\* Variant: the request is sent without its terminator.
GetMessageUnterminated(bus, pin) ==
    <<"G", "E", "T", " ">> \o BusText(bus) \o <<" ">> \o IntText(pin)

\* f"GET {bus} {pin}\n"
GetMessage(bus, pin) ==
    <<"G", "E", "T", " ">> \o BusText(bus) \o <<" ">> \o IntText(pin) \o <<"\n">>

\* f"SET {bus} {pin} {value}\n"
SetMessage(bus, pin, v) ==
    <<"S", "E", "T", " ">> \o BusText(bus) \o <<" ">> \o IntText(pin)
        \o <<" ">> \o Render(v) \o <<"\n">>

\* ------------------------------------------------------------------ catalog
Pins(n) == 0..(n - 1)

\* The pvproperties of PortentaIOC, as <<name stem, pin>>.
EntriesV1 ==
    ({"do", "do_RBV", "dio", "dio_RBV", "di_RBV"} \X Pins(NDigital))
        \cup ({"ao"} \X Pins(NAnalogOut))
        \cup ({"ai_RBV"} \X Pins(NAnalogIn + 1))
        \cup {<<"timestamp", 0>>, <<"update_hook", 0>>}

EntriesV2 ==
    ({"do", "do_RBV", "dio", "dio_RBV", "di"} \X Pins(NDigital))
        \cup ({"ao", "ao_RBV"} \X Pins(NAnalogOut))
        \cup ({"ai", "t"} \X Pins(NAnalogIn))

Entries(i) == IF i = "v1" THEN EntriesV1 ELSE EntriesV2

NoEntry == <<"none", 0>>

\* The bus token each callback passes to the client.
BusOf(stem) ==
    CASE stem = "do" -> "DO" [] stem = "dio" -> "DIO" [] stem = "di" -> "DI"
      [] stem = "ao" -> "AO" [] stem = "ai" -> "AI" [] stem = "t" -> "SENSOR temp"

\* The pvproperties with a putter.
Writable(i) ==
    ({"do", "dio"} \X Pins(NDigital)) \cup ({"ao"} \X Pins(NAnalogOut))

\* The pvproperties a client can write that have no putter: every one declared
\* without read_only (update_hook of v1 is the only one declared with it).
NoPutter(i) == (Entries(i) \ Writable(i)) \ {<<"update_hook", 0>>}

\* The ones of them a client writes to here: a read-back, a digital input and
\* a temperature sensor.
ClientWriteTargets(i) ==
    IF i = "v1" THEN {<<"do_RBV", 0>>, <<"di_RBV", 0>>}
    ELSE {<<"do_RBV", 0>>, <<"di", 0>>, <<"t", 0>>}

\* The pvproperties with a scan (v2), and the pvproperty each scan writes.
ScannedV2 ==
    ({"do", "dio", "di"} \X Pins(NDigital))
        \cup ({"ao"} \X Pins(NAnalogOut))
        \cup ({"ai", "t"} \X Pins(NAnalogIn))

RbvStem(stem) ==
    CASE stem = "do" -> "do_RBV" [] stem = "dio" -> "dio_RBV"
      [] stem = "ao" -> "ao_RBV" [] OTHER -> stem

\* Variant: the scan writes the reading to its own pvproperty.
ScanTargetV2Self(e) == e

ScanTargetV2(e) == <<RbvStem(e[1]), e[2]>>

\* The values a client puts: the enum string "On" of a bool record, a number
\* of an analog one.
PutValues(e) ==
    IF e[1] \in {"ao", "ao_RBV", "ai", "ai_RBV", "t"} THEN {PyFloat(5)}
    ELSE {PyStr(<<"O", "n">>)}

\* -------------------------------------------------------------------- tasks
Nobody == <<"none", "", 0>>
HookTask == <<"hook", "update_hook", 0>>
PutTask == <<"put", "", 0>>
ScanTasksV2 == {<<"scan", e[1], e[2]>> : e \in ScannedV2}

Tasks(i) == IF i = "v1" THEN {HookTask, PutTask} ELSE ScanTasksV2 \cup {PutTask}

IsPut(t) == t[1] = "put"

NoReq == [op |-> "none", bus |-> "", pin |-> 0, val |-> InitVal, owner |-> NoEntry,
          target |-> NoEntry, given |-> InitVal]
NoLine == [kind |-> "none", line |-> <<>>]

\* ---------------------------------------------------------- the controller
BusDigit(bus) ==
    CASE bus = "DO" -> "1" [] bus = "DI" -> "2" [] bus = "AO" -> "3"
      [] bus = "AI" -> "4" [] bus = "DIO" -> "5" [] bus = "SENSOR temp" -> "6"

\* The reading the controller reports for a pin: a numeral that tells the
\* buses and pins apart (bus digit, pin digit).
DeviceReading(bus, pin) == <<BusDigit(bus), DigitChars[pin + 1]>>

\* What the controller answers to GET bus pin: the value an output was last
\* SET to, the pin's reading otherwise.
Reading(bus, pin) ==
    IF <<bus, pin>> \in DOMAIN dev /\ dev[<<bus, pin>>] >= 0
    THEN <<DigitChars[dev[<<bus, pin>>] + 1]>>
    ELSE DeviceReading(bus, pin)

\* The controller's answer to a well-formed request: for GET a line whose last
\* token is the reading, for SET the acknowledgment, with or without its
\* line terminator.
GoodLines(r) ==
    IF r.op = "GET"
    THEN {<<"v", " ">> \o Reading(r.bus, r.pin) \o <<"\n">>}
    ELSE {<<"O", "K">>, <<"O", "K", "\n">>}

\* Lines of a controller that misbehaves: an empty line and a non-numeric one
\* for GET, a refusal for SET.
BadLines(r) ==
    IF r.op = "GET" THEN {<<>>, <<"e", "r", "r", "\n">>}
    ELSE {<<"E", "R", "R", "\n">>}

\* The controller's outputs after it has carried out request r.
Applied(r) ==
    IF r.op = "SET" /\ <<r.bus, r.pin>> \in DOMAIN dev /\ r.val.n \in 0..9
    THEN [dev EXCEPT ![<<r.bus, r.pin>>] = r.val.n]
    ELSE dev

GoodReplies(r) == {[kind |-> "line", line |-> l] : l \in GoodLines(r)}

\* A misbehaving controller answers with a bad line, resets the connection, or
\* stays silent.
BadReplies(r) ==
    {[kind |-> "line", line |-> l] : l \in BadLines(r)}
        \cup {[kind |-> "reset", line |-> <<>>], [kind |-> "silent", line |-> <<>>]}

NoLoc == [loop |-> "none", i |-> 0, DIPort |-> 0]
NoLast == [op |-> "none", task |-> Nobody, bus |-> "", pin |-> 0, val |-> InitVal,
           owner |-> NoEntry, given |-> InitVal, target |-> NoEntry, line |-> <<>>,
           outcome |-> "none", err |-> "", msg |-> <<>>, wire |-> <<>>]

\* ------------------------------------------------- building the catalog
\* name = pvproperty(...) statements of stem for pins 0..n-1, each followed by
\* the statement of its read-back.
WithReadback(stem, n) ==
    [k \in 1..(2 * n) |-> IF k % 2 = 1 THEN <<stem, (k - 1) \div 2>>
                          ELSE <<RbvStem(stem), (k - 1) \div 2>>]

\* name = pvproperty(...) statements of stem for pins 0..n-1.
Alone(stem, n) == [k \in 1..n |-> <<stem, k - 1>>]

\* The names the class body of v2 binds to a new pvproperty, in the order of
\* its statements: dio0 is bound twice.
ClassBodyV2 ==
    WithReadback("do", NDigital) \o << <<"dio", 0>> >> \o WithReadback("dio", NDigital)
        \o Alone("di", NDigital) \o WithReadback("ao", NAnalogOut)
        \o Alone("ai", NAnalogIn) \o Alone("t", NAnalogIn)

\* namespace[name] = value: the binding of the name is replaced, or added.
Bind(ns, name, p) == {b \in ns : b[1] # name} \cup {<<name, p>>}

NoCall == [kind |-> "none", made_for |-> -1, index |-> -1]

\* Nothing is being built. i is the loop variable of create_pvproperties, -1
\* while unbound; ns binds a name to the statement that bound it last.
NoBuild ==
    [file |-> "none", pos |-> 0, ns |-> {}, pvs |-> {}, created |-> FALSE,
     start_index |-> 0, count |-> 0, putter_logic |-> FALSE, scan_logic |-> FALSE,
     i |-> -1, props |-> {}, returned |-> FALSE, called |-> NoCall]

\* The arguments create_pvproperties is called with.
BuildInputs ==
    {[NoBuild EXCEPT !.file = "old", !.start_index = s, !.count = c,
                     !.putter_logic = p, !.scan_logic = q] :
        s \in 0..MaxStart, c \in 0..MaxCount, p \in BOOLEAN, q \in BOOLEAN}

\* The state of the IOC after construction.
IOCInit ==
    /\ impl \in {"v1", "v2"}
    /\ cache = [e \in Entries(impl) |-> [val |-> InitVal, alarm |-> "none"]]
    /\ pc = [t \in Tasks(impl) |-> IF IsPut(t) THEN "idle" ELSE "sleep"]
    /\ req = [t \in Tasks(impl) |-> NoReq]
    /\ resp = [t \in Tasks(impl) |-> NoLine]
    /\ loc = NoLoc
    /\ running = Nobody
    /\ conns = {}
    /\ events = 0
    /\ faults = 0
    /\ dev = [o \in {<<BusOf(e[1]), e[2]>> : e \in Writable(impl)} |-> -1]
    /\ last = NoLast
    /\ unclosed = 0

\* The state once the class is built and the server started.
Init == IOCInit /\ build = NoBuild

\* ------------------------------------------------------------- event loop
\* A task may take a step when it holds the thread or nobody does.
CanRun(t) == running \in {Nobody, t}

\* Variant: the socket calls are awaited, so each one hands the thread back to
\* the event loop.
AfterSocketCallAwaited(t) == Nobody

\* connect, sendall and recv are blocking calls made without await: when one
\* returns, the calling coroutine still holds the thread.
AfterSocketCall(t) == t

\* Variant: the callback awaits before its first socket call, so the event loop
\* may run another task between the call of the callback and its exchange.
AfterCallbackStartYielding(t) == Nobody

\* A scan callback of v2 and a putter call the client in their first statement,
\* with no await before it: once called, the callback holds the thread.
AfterCallbackStart(t) == t

\* Variant: the scan callback names the pin of a neighbouring channel.
ScanRequestV2OtherPin(t) ==
    [op |-> "GET", bus |-> BusOf(t[2]), pin |-> IF t[3] = 0 THEN 1 ELSE 0,
     val |-> InitVal, owner |-> <<t[2], t[3]>>,
     target |-> ScanTargetV2(<<t[2], t[3]>>), given |-> InitVal]

\* The request a scan callback of v2 hands to PortentaClient.read.
ScanRequestV2(t) ==
    [op |-> "GET", bus |-> BusOf(t[2]), pin |-> t[3], val |-> InitVal,
     owner |-> <<t[2], t[3]>>, target |-> ScanTargetV2(<<t[2], t[3]>>),
     given |-> InitVal]

\* The read update_pin_status makes at a position of its four loops, and the
\* pvproperty it writes the result to.
HookRequest(l) ==
    [op |-> "GET",
     bus |-> l.loop,
     pin |-> IF l.loop = "DIO" THEN l.DIPort ELSE l.i,
     val |-> InitVal,
     owner |-> <<"update_hook", 0>>,
     target |-> IF l.loop = "DIO" THEN <<"dio_RBV", l.i>> ELSE <<"do_RBV", l.i>>,
     given |-> InitVal]

\* The range of each loop of update_pin_status.
LoopCount(loop) ==
    CASE loop = "DO" -> NDigital [] loop = "DI" -> NDigital
      [] loop = "AI" -> NAnalogIn [] loop = "DIO" -> NDigital

\* Variant: the analog inputs are read before the digital inputs.
FollowingLoopAnalogFirst(loop) ==
    CASE loop = "DO" -> "AI" [] loop = "AI" -> "DI" [] loop = "DI" -> "DIO"
      [] loop = "DIO" -> "none"

FollowingLoop(loop) ==
    CASE loop = "DO" -> "DI" [] loop = "DI" -> "AI" [] loop = "AI" -> "DIO"
      [] loop = "DIO" -> "none"

\* The loop variables after one more iteration; DIPort keeps the last value
\* the DI loop gave it.
NextLoc(l) ==
    IF l.i + 1 < LoopCount(l.loop)
    THEN [loop |-> l.loop, i |-> l.i + 1,
          DIPort |-> IF l.loop = "DI" THEN l.i + 1 ELSE l.DIPort]
    ELSE [loop |-> FollowingLoop(l.loop), i |-> 0, DIPort |-> l.DIPort]

\* The request a putter hands to the write function.
PutRequest(e, v) ==
    [op |-> "SET", bus |-> BusOf(e[1]), pin |-> e[2],
     val |-> IF impl = "v1" THEN CoerceV1(v) ELSE CoerceV2(v),
     owner |-> e, target |-> e, given |-> v]

\* Variant: a scan that raises leaves the alarm of its pvproperty as it was.
AlarmAfterRaiseUnmarked(t) == IF IsPut(t) THEN "WRITE" ELSE cache[req[t].owner].alarm

\* The alarm an exception leaves on the pvproperty whose callback raised it.
AlarmAfterRaise(t) == IF IsPut(t) THEN "WRITE" ELSE "SCAN"

\* Variant: the exchange is made again when it raised.
PcAfterRaiseRetrying(t) == "connect"

\* Variant: the scan is declared with stop_on_error, so an exception ends it.
PcAfterRaiseStopping(t) == IF IsPut(t) THEN "idle" ELSE "stopped"

\* Where a task stands after its callback raised: a putter's caller gets the
\* exception, a scan is called again after its period.
PcAfterRaise(t) == IF IsPut(t) THEN "idle" ELSE "sleep"

\* The record of the exchange of task t as it ends: target is the pvproperty
\* a value was stored to (NoEntry when none was), val the value decoded or sent.
Ended(t, target, val, outcome, err) ==
    [op |-> req[t].op, task |-> t, bus |-> req[t].bus, pin |-> req[t].pin,
     val |-> val, owner |-> req[t].owner, given |-> req[t].given,
     target |-> target, line |-> resp[t].line,
     outcome |-> outcome, err |-> err, msg |-> <<>>, wire |-> resp[t].line]

\* The sockets left without close() once an exception has left the exchange of
\* task t. v1 calls sock.close() after recv returned, so a sendall or recv that
\* raises skips it; v2 holds the socket in a with statement, which closes it.
UnclosedAfterRaise(t) ==
    IF impl = "v1" /\ pc[t] \in {"send", "recv"} THEN unclosed + 1 ELSE unclosed

\* An exception leaves the callback of task t.
Raise(t, err) ==
    /\ cache' = [cache EXCEPT ![req[t].owner].alarm = AlarmAfterRaise(t)]
    /\ pc' = [pc EXCEPT ![t] = PcAfterRaise(t)]
    /\ req' = [req EXCEPT ![t] = NoReq]
    /\ resp' = [resp EXCEPT ![t] = NoLine]
    /\ loc' = IF t = HookTask THEN NoLoc ELSE loc
    /\ running' = Nobody
    /\ unclosed' = UnclosedAfterRaise(t)
    /\ last' = Ended(t, NoEntry, req[t].val, "raised", err)

\* The scan alarm is cleared when the scan callback returns.
ClearScanAlarm(c, e) ==
    IF c[e].alarm = "SCAN" THEN [c EXCEPT ![e].alarm = "none"] ELSE c

\* Variant: the timer calls the scan callback every period, whether or not the
\* previous call has ended.
ScanDueOnTimer(t) == TRUE

\* The scan of task t calls its callback again only once the previous call has
\* returned or raised and the period has been slept: the callback is awaited.
ScanDue(t) == pc[t] = "sleep"

\* ------------------------------------------------------------------ actions
\* v2: the period of a channel's scan has passed and its callback is called.
ScanFire(t) ==
    /\ impl = "v2"
    /\ t \in ScanTasksV2
    /\ ScanDue(t)
    /\ running = Nobody
    /\ events < MaxEvents
    /\ events' = events + 1
    /\ req' = [req EXCEPT ![t] = ScanRequestV2(t)]
    /\ pc' = [pc EXCEPT ![t] = "connect"]
    /\ running' = AfterCallbackStart(t)
    /\ UNCHANGED <<build, unclosed, impl, cache, resp, loc, conns, faults, dev, last>>

\* v1: update_hook is called: it writes the timestamp, then enters update_pin_status.
HookFire ==
    /\ impl = "v1"
    /\ ScanDue(HookTask)
    /\ running = Nobody
    /\ events < MaxEvents
    /\ events' = events + 1
    /\ cache' = [cache EXCEPT ![<<"timestamp", 0>>].val = PyInt(events + 1)]
    /\ loc' = [loop |-> "DO", i |-> 0, DIPort |-> 0]
    /\ req' = [req EXCEPT ![HookTask] = HookRequest(loc')]
    /\ pc' = [pc EXCEPT ![HookTask] = "connect"]
    /\ running' = Nobody
    /\ UNCHANGED <<build, unclosed, impl, resp, conns, faults, dev, last>>

\* A client puts value v to pvproperty e: its putter is called.
Put(e, v) ==
    /\ pc[PutTask] = "idle"
    /\ running = Nobody
    /\ events < MaxEvents
    /\ events' = events + 1
    /\ req' = [req EXCEPT ![PutTask] = PutRequest(e, v)]
    /\ pc' = [pc EXCEPT ![PutTask] = "connect"]
    /\ running' = AfterCallbackStart(PutTask)
    /\ UNCHANGED <<build, unclosed, impl, cache, resp, loc, conns, faults, dev, last>>

\* A client puts value v to pvproperty e, which has no putter and is not
\* read_only: the value is stored, and nothing is sent to the controller.
ClientWrite(e, v) ==
    /\ e \in ClientWriteTargets(impl)
    /\ running = Nobody
    /\ events < MaxEvents
    /\ events' = events + 1
    /\ cache' = [cache EXCEPT ![e].val = v]
    /\ last' = [NoLast EXCEPT !.op = "PUT", !.owner = e, !.target = e,
                              !.given = v, !.val = v, !.outcome = "returned"]
    /\ UNCHANGED <<build, unclosed, impl, pc, req, resp, loc, running, conns, faults, dev>>

\* socket() and sock.connect(): the controller accepts, or refuses.
Connect(t) ==
    /\ pc[t] = "connect"
    /\ CanRun(t)
    /\ \/ /\ conns' = conns \cup {t}
          /\ pc' = [pc EXCEPT ![t] = "send"]
          /\ running' = AfterSocketCall(t)
          /\ UNCHANGED <<cache, req, resp, loc, faults, last, unclosed>>
       \/ /\ faults < MaxFaults
          /\ faults' = faults + 1
          /\ Raise(t, "ConnectionError")
          /\ UNCHANGED conns
    /\ UNCHANGED <<build, impl, events, dev>>

\* sock.sendall(): the request reaches the controller, which decides what to
\* do with it, or the send fails.
Send(t) ==
    /\ pc[t] = "send"
    /\ CanRun(t)
    /\ \/ /\ \E r \in GoodReplies(req[t]) : resp' = [resp EXCEPT ![t] = r]
          /\ dev' = Applied(req[t])
          /\ pc' = [pc EXCEPT ![t] = "recv"]
          /\ running' = AfterSocketCall(t)
          /\ UNCHANGED <<cache, req, loc, last, conns, faults, unclosed>>
       \/ /\ faults < MaxFaults
          /\ faults' = faults + 1
          /\ \E r \in BadReplies(req[t]) : resp' = [resp EXCEPT ![t] = r]
          /\ pc' = [pc EXCEPT ![t] = "recv"]
          /\ running' = AfterSocketCall(t)
          /\ UNCHANGED <<cache, req, loc, last, conns, dev, unclosed>>
       \/ /\ faults < MaxFaults
          /\ faults' = faults + 1
          /\ Raise(t, "IOError")
          /\ conns' = conns \ {t}
          /\ UNCHANGED dev
    /\ UNCHANGED <<build, impl, events>>

\* sock.recv(1024): returns once the controller has answered; a reset raises.
\* No timeout is set on the socket: with a silent controller it does not return.
Recv(t) ==
    /\ pc[t] = "recv"
    /\ CanRun(t)
    /\ resp[t].kind # "silent"
    /\ \/ /\ resp[t].kind = "line"
          /\ pc' = [pc EXCEPT ![t] = "close"]
          /\ running' = AfterSocketCall(t)
          /\ UNCHANGED <<cache, req, resp, loc, last, conns, unclosed>>
       \/ /\ resp[t].kind = "reset"
          /\ Raise(t, "IOError")
          /\ conns' = conns \ {t}
    /\ UNCHANGED <<build, impl, events, faults, dev>>

\* v2 scan: the socket is closed, the line decoded and written to the scan's target.
FinishScan(t) ==
    /\ impl = "v2"
    /\ pc[t] = "close"
    /\ CanRun(t)
    /\ req[t].op = "GET"
    /\ conns' = conns \ {t}
    /\ LET d == DecodeV2(resp[t].line)
       IN  IF d.err # ""
           THEN Raise(t, d.err)
           ELSE /\ cache' = ClearScanAlarm(
                                [cache EXCEPT ![req[t].target].val = d.val],
                                req[t].owner)
                /\ pc' = [pc EXCEPT ![t] = "sleep"]
                /\ req' = [req EXCEPT ![t] = NoReq]
                /\ resp' = [resp EXCEPT ![t] = NoLine]
                /\ running' = Nobody
                /\ last' = Ended(t, req[t].target, d.val, "returned", "")
                /\ UNCHANGED <<loc, unclosed>>
    /\ UNCHANGED <<build, impl, events, faults, dev>>

\* v1 round: the socket is closed, the token written to the pvproperty the
\* loop names, and the loop goes on to its next read or the round ends.
FinishHookRead ==
    /\ impl = "v1"
    /\ pc[HookTask] = "close"
    /\ CanRun(HookTask)
    /\ conns' = conns \ {HookTask}
    /\ LET d == DecodeV1(resp[HookTask].line)
           stored == [cache EXCEPT ![req[HookTask].target].val = d.val]
           nl == NextLoc(loc)
       IN  /\ last' = Ended(HookTask, req[HookTask].target, d.val, "returned", "")
           /\ resp' = [resp EXCEPT ![HookTask] = NoLine]
           /\ running' = Nobody
           /\ IF nl.loop = "none"
              THEN /\ cache' = ClearScanAlarm(stored, <<"update_hook", 0>>)
                   /\ loc' = NoLoc
                   /\ req' = [req EXCEPT ![HookTask] = NoReq]
                   /\ pc' = [pc EXCEPT ![HookTask] = "sleep"]
              ELSE /\ cache' = stored
                   /\ loc' = nl
                   /\ req' = [req EXCEPT ![HookTask] = HookRequest(nl)]
                   /\ pc' = [pc EXCEPT ![HookTask] = "connect"]
    /\ UNCHANGED <<build, unclosed, impl, events, faults, dev>>

\* Whether the write function raises on the line it received.
WriteRaises(line) == impl = "v2" /\ ~AckOK(line)

\* A putter's write: the socket is closed and the response compared with "OK";
\* when the putter returns, the framework stores the value that was put.
FinishPut ==
    /\ pc[PutTask] = "close"
    /\ CanRun(PutTask)
    /\ conns' = conns \ {PutTask}
    /\ IF WriteRaises(resp[PutTask].line)
       THEN Raise(PutTask, "ValueError")
       ELSE /\ cache' = [cache EXCEPT ![req[PutTask].owner].val = req[PutTask].given]
            /\ pc' = [pc EXCEPT ![PutTask] = "idle"]
            /\ req' = [req EXCEPT ![PutTask] = NoReq]
            /\ resp' = [resp EXCEPT ![PutTask] = NoLine]
            /\ running' = Nobody
            /\ last' = Ended(PutTask, req[PutTask].owner, req[PutTask].val, "returned", "")
            /\ UNCHANGED <<loc, unclosed>>
    /\ UNCHANGED <<build, impl, events, faults, dev>>

Next ==
    \/ \E t \in DOMAIN pc : ScanFire(t)
    \/ HookFire
    \/ \E e \in Writable(impl) : \E v \in PutValues(e) : Put(e, v)
    \/ \E e \in ClientWriteTargets(impl) : \E v \in PutValues(e) : ClientWrite(e, v)
    \/ \E t \in DOMAIN pc : Connect(t)
    \/ \E t \in DOMAIN pc : Send(t)
    \/ \E t \in DOMAIN pc : Recv(t)
    \/ \E t \in DOMAIN pc : FinishScan(t)
    \/ FinishHookRead
    \/ FinishPut

Spec == Init /\ [][Next]_vars

\* The event loop runs any task that can take a step.
FairSpec == Spec /\ WF_vars(Next)

\* ------------------------------------------------- the codec on its own
\* The values handed to the write function: strings in several spellings,
\* integers and Python booleans for a digital channel, numbers for an analog one.
WriteInputs(e) ==
    IF e[1] = "ao"
    THEN {PyInt(0), PyInt(12), PyFloat(5)}
    ELSE {PyStr(<<"O", "n">>), PyStr(<<"O", "N">>), PyStr(<<"o", "n">>),
          PyStr(<<"o", "N">>), PyStr(<<"1">>), PyStr(<<"T", "r", "u", "e">>),
          PyStr(<<"t", "r", "u", "e">>), PyStr(<<"T", "R", "U", "E">>),
          PyStr(<<"O", "f", "f">>), PyStr(<<"0">>), PyStr(<<>>),
          PyInt(0), PyInt(1), PyBool(TRUE), PyBool(FALSE)}

\* Response texts handed to the decoding of a read.
ResponseLines ==
    {<<"v", " ", "2", "0", "\n">>, <<"v", "\t", "2", "0", "\n">>,
     <<"v", " ", " ", "2", "0", "\n">>, <<"v", " ", "2", "0", "\r", "\n">>,
     <<"2", "0">>, <<" ", "7", " ">>, <<"a", " ", "b", " ", "1", "\n">>,
     <<"0", "\n">>, <<>>, <<" ", "\n">>, <<"e", "r", "r", "\n">>,
     <<"v", " ", "x", "\n">>}

\* The write function is called with (bus, pin, v) of pvproperty e: the value
\* is converted and the message composed; msg is the text it sends.
WriteCall(e, v) ==
    /\ last.op = "none"
    /\ LET r == PutRequest(e, v)
       IN  last' = [NoLast EXCEPT !.op = "SET", !.task = PutTask, !.bus = r.bus,
                                  !.pin = r.pin, !.val = r.val, !.owner = e,
                                  !.given = v,
                                  !.msg = SetMessage(r.bus, r.pin, r.val)]
    /\ UNCHANGED <<build, unclosed, impl, cache, pc, req, resp, loc, running, conns, events, faults, dev>>

\* The (bus, pin) the read function is called with: by the scans of v2, by
\* the loops of update_pin_status in v1 (the DIO loop reads the last DI pin).
ReadArgs(i) ==
    IF i = "v2" THEN {<<BusOf(e[1]), e[2]>> : e \in ScannedV2}
    ELSE ({"DO", "DI"} \X Pins(NDigital)) \cup ({"AI"} \X Pins(NAnalogIn))
             \cup {<<"DIO", NDigital - 1>>}

\* What one recv(1024) can return of the line the controller sent: the bytes
\* that have arrived, at least one, or nothing when the peer closed.
Fragments(line) ==
    IF line = <<>> THEN {<<>>} ELSE {SubSeq(line, 1, k) : k \in 1..Len(line)}

\* The read function is called with (bus, pin): it composes the request and
\* decodes what its one recv returned of the response line sent to it.
ReadCall(bus, pin, line, got) ==
    /\ last.op = "none"
    /\ LET d == IF impl = "v1" THEN DecodeV1(got) ELSE DecodeV2(got)
       IN  last' = [NoLast EXCEPT !.op = "GET", !.bus = bus, !.pin = pin,
                                  !.msg = GetMessage(bus, pin),
                                  !.wire = line, !.line = got, !.val = d.val,
                                  !.err = d.err,
                                  !.outcome = IF d.err = "" THEN "returned"
                                              ELSE "raised"]
    /\ UNCHANGED <<build, unclosed, impl, cache, pc, req, resp, loc, running, conns, events, faults, dev>>

CodecNext ==
    \/ \E e \in Writable(impl) : \E v \in WriteInputs(e) : WriteCall(e, v)
    \/ \E a \in ReadArgs(impl) : \E line \in ResponseLines :
          \E got \in Fragments(line) : ReadCall(a[1], a[2], line, got)

CodecSpec == Init /\ [][CodecNext]_vars

\* ------------------------------------------ the construction on its own
\* Variant: the callbacks read the loop variable when they run.
BoundIndexLate(default, current) == current

\* The index a loop-generated callback runs with: its parameter index=i took
\* the value of i when the def statement ran; current is i when it is called.
BoundIndex(default, current) == default

\* v2: the next name = pvproperty(...) statement of the class body runs.
Declare ==
    /\ build.file = "v2"
    /\ build.pos < Len(ClassBodyV2)
    /\ build' = [build EXCEPT !.pos = build.pos + 1,
                              !.ns = Bind(build.ns, ClassBodyV2[build.pos + 1],
                                          build.pos + 1)]
    /\ UNCHANGED <<unclosed, impl, cache, pc, req, resp, loc, running, conns,
                   events, faults, dev, last>>

\* v2: the class body has run and the class is created from its namespace:
\* every name bound to a pvproperty becomes one of the group.
ClassCreated ==
    /\ build.file = "v2"
    /\ build.pos = Len(ClassBodyV2)
    /\ ~build.created
    /\ build' = [build EXCEPT !.created = TRUE, !.pvs = {b[1] : b \in build.ns}]
    /\ UNCHANGED <<unclosed, impl, cache, pc, req, resp, loc, running, conns,
                   events, faults, dev, last>>

\* old: one iteration of the loop of create_pvproperties: the callbacks asked
\* for are defined with index=i and the pvproperty is stored under its name.
Iterate ==
    /\ build.file = "old"
    /\ ~build.returned
    /\ LET n == IF build.i = -1 THEN build.start_index ELSE build.i + 1
       IN  /\ n < build.start_index + build.count
           /\ build' = [build EXCEPT
                  !.i = n,
                  !.props = {q \in build.props : q.name # n} \cup
                            {[name |-> n,
                              putter |-> IF build.putter_logic THEN n ELSE -1,
                              scan |-> IF build.scan_logic THEN n ELSE -1]}]
    /\ UNCHANGED <<unclosed, impl, cache, pc, req, resp, loc, running, conns,
                   events, faults, dev, last>>

\* old: the range is exhausted and create_pvproperties returns props.
Return ==
    /\ build.file = "old"
    /\ ~build.returned
    /\ (IF build.i = -1 THEN build.start_index ELSE build.i + 1)
           >= build.start_index + build.count
    /\ build' = [build EXCEPT !.returned = TRUE]
    /\ UNCHANGED <<unclosed, impl, cache, pc, req, resp, loc, running, conns,
                   events, faults, dev, last>>

\* old: the putter of the pvproperty made for index k is called.
CallPutter(k) ==
    /\ build.returned
    /\ \E q \in build.props :
          /\ q.name = k
          /\ q.putter # -1
          /\ build' = [build EXCEPT !.called =
                          [kind |-> "putter", made_for |-> k,
                           index |-> BoundIndex(q.putter, build.i)]]
    /\ UNCHANGED <<unclosed, impl, cache, pc, req, resp, loc, running, conns,
                   events, faults, dev, last>>

\* old: the scan callback of the pvproperty made for index k is called.
CallScan(k) ==
    /\ build.returned
    /\ \E q \in build.props :
          /\ q.name = k
          /\ q.scan # -1
          /\ build' = [build EXCEPT !.called =
                          [kind |-> "scan", made_for |-> k,
                           index |-> BoundIndex(q.scan, build.i)]]
    /\ UNCHANGED <<unclosed, impl, cache, pc, req, resp, loc, running, conns,
                   events, faults, dev, last>>

BuildInit ==
    /\ IOCInit
    /\ impl = "v2"
    /\ build \in BuildInputs \cup {[NoBuild EXCEPT !.file = "v2"]}

BuildNext ==
    \/ Declare
    \/ ClassCreated
    \/ Iterate
    \/ Return
    \/ \E k \in 0..(MaxStart + MaxCount) : CallPutter(k)
    \/ \E k \in 0..(MaxStart + MaxCount) : CallScan(k)

BuildSpec == BuildInit /\ [][BuildNext]_vars

\* ------------------------------------------------------------- properties
\* The places of a task inside an exchange: its connection is open.
ExchangePhases == {"send", "recv", "close"}
InFlight == {t \in DOMAIN pc : pc[t] \in ExchangePhases}

\* The protocol's acknowledgment: the line OK, with or without its terminator.
IsAck(line) == line \in {<<"O", "K">>, <<"O", "K", "\n">>}

TransportErrors == {"ConnectionError", "IOError"}

\* Task t leaves its callback in this step.
Leaves(t) == pc[t] \in {"connect", "send", "recv", "close"}
                /\ pc'[t] \notin {"connect", "send", "recv", "close"}

\* The timer of scan task t can fire.
CanFire(t) == IF t = HookTask THEN ENABLED HookFire ELSE ENABLED ScanFire(t)

\* C1: at most one exchange with the controller is in flight at any instant:
\* the controller never holds two connections, at most one task is inside an
\* exchange, and that task holds the event loop's thread, so that a poll and a
\* write requested together are served one after the other.
C1_OneExchangeInFlight ==
    /\ Cardinality(conns) <= 1
    /\ Cardinality(InFlight) <= 1
    /\ \A t \in InFlight : running = t

\* A write is in flight while a poll round waits for its next read.
C1_Witness ==
    \E t \in DOMAIN pc : \E u \in DOMAIN pc :
        /\ IsPut(t) /\ pc[t] = "recv" /\ t \in conns
        /\ ~IsPut(u) /\ pc[u] = "connect"

\* C2: a write whose SET was not acknowledged with OK (another line, or a
\* failed exchange) never returns normally to its caller.
C2_UnacknowledgedWriteFails ==
    (last.op = "SET" /\ ~IsAck(last.line)) => last.outcome = "raised"

\* C3: when a write ends without an OK acknowledgment, every cached value is
\* the same after the write as before it.
C3_UnacknowledgedWriteKeepsCache ==
    [][(Leaves(PutTask) /\ ~IsAck(last'.line))
          => \A e \in DOMAIN cache : cache'[e].val = cache[e].val]_vars

\* C4: when the controller acknowledges a SET with OK, the written channel's
\* cache entry holds the written value and health ok after the write.
C4_AcknowledgedWriteIsCached ==
    (last.op = "SET" /\ IsAck(last.line))
        => /\ cache[last.owner].val = last.given
           /\ cache[last.owner].alarm = "none"

\* C5: every exchange terminates: an exchange in flight eventually ends, also
\* when the controller accepted the connection and never responds.
C5_EveryExchangeTerminates == (InFlight # {}) ~> (InFlight = {})

\* C6: while one task's exchange waits on a controller that never responds,
\* the poll of every other channel can still fire.
C6_StuckExchangeLeavesOtherPolls ==
    \A t \in DOMAIN pc : \A u \in DOMAIN pc :
        (/\ pc[t] = "recv" /\ resp[t].kind = "silent"
         /\ u # t /\ ~IsPut(u) /\ pc[u] = "sleep" /\ events < MaxEvents)
            => CanFire(u)

\* C7: a failure while polling one channel does not keep the other channels of
\* the same polling round from being read: a round of update_pin_status ends
\* only at the last read of its last loop.
C7_FailedPollDoesNotEndRound ==
    [][(impl = "v1" /\ Leaves(HookTask)) => NextLoc(loc).loop = "none"]_vars

C9_FailedPollIsRescheduled ==
    \A t \in DOMAIN pc :
        (~IsPut(t) /\ last.task = t /\ last.outcome = "raised")
            => /\ pc[t] \in {"sleep", "connect", "send", "recv", "close"}
               /\ (pc[t] = "sleep" /\ running = Nobody /\ events < MaxEvents)
                      => CanFire(t)

\* After a poll that failed on an empty response line, the next poll of the
\* same channel has fired.
C9_Witness ==
    \E t \in DOMAIN pc :
        /\ ~IsPut(t) /\ last.task = t /\ last.outcome = "raised"
        /\ last.err = "IndexError"
        /\ pc[t] = "connect" /\ running = t

\* The cache entries of the channel with a bus and pin: the channel's own
\* pvproperty and its read-back.
OwnEntries(bus, pin) ==
    CASE bus = "DO" -> {<<"do", pin>>, <<"do_RBV", pin>>}
      [] bus = "DIO" -> {<<"dio", pin>>, <<"dio_RBV", pin>>}
      [] bus = "AO" -> {<<"ao", pin>>, <<"ao_RBV", pin>>}
      [] bus = "DI" -> {<<"di", pin>>, <<"di_RBV", pin>>}
      [] bus = "AI" -> {<<"ai", pin>>, <<"ai_RBV", pin>>}
      [] bus = "SENSOR temp" -> {<<"t", pin>>}
      [] OTHER -> {}

\* Value v is the reading written as numeral tok, as a number or as its text.
Holds(v, tok) ==
    \/ v.ty = "float" /\ v.n = NumeralVal(tok)
    \/ v.ty = "str" /\ v.s = tok

\* C10: a successful poll of the channel with bus b and pin p stores the
\* reading the controller returned for GET b p in that channel's own cache
\* entry or its read-back entry.
C10_PollStoresOwnReading ==
    (last.op = "GET" /\ last.outcome = "returned"
        /\ last.line \in GoodLines(last)
        /\ pc[PutTask] \in {"idle", "connect", "send"})
        => /\ last.target \in OwnEntries(last.bus, last.pin)
           /\ Holds(cache[last.target].val, Reading(last.bus, last.pin))

\* The pvproperties update_pin_status is there to refresh, with the bus and pin
\* each one mirrors.
PolledEntriesV1 ==
    ({"do_RBV", "dio_RBV", "di_RBV"} \X Pins(NDigital))
        \cup ({"ai_RBV"} \X Pins(NAnalogIn + 1))

BusOfEntryV1(e) ==
    CASE e[1] = "do_RBV" -> "DO" [] e[1] = "dio_RBV" -> "DIO"
      [] e[1] = "di_RBV" -> "DI" [] e[1] = "ai_RBV" -> "AI"

\* A whole round of update_pin_status has just ended, every exchange of the
\* behaviour so far having been answered correctly.
RoundDone ==
    /\ impl = "v1" /\ faults = 0
    /\ last.task = HookTask /\ last.outcome = "returned"
    /\ pc[HookTask] = "sleep" /\ pc[PutTask] = "idle"

\* C11: every read-capable channel is polled: with a controller that always
\* answers, after a polling round each such channel's cache entry holds a
\* reading of its own bus and pin.
C11_EveryReadableChannelPolled ==
    RoundDone =>
        \A e \in PolledEntriesV1 :
            Holds(cache[e].val, Reading(BusOfEntryV1(e), e[2]))

\* Tasks whose request has been issued and has not ended.
Pending == {t \in DOMAIN pc : pc[t] \notin {"idle", "sleep"}}

C13_RoundTrip ==
    (/\ impl = "v2" /\ faults = 0
     /\ last.op = "GET" /\ last.outcome = "returned"
     /\ last.owner \in Writable(impl)
     /\ dev[<<last.bus, last.pin>>] = 1
     /\ last.line = <<"v", " ", "1", "\n">>
     /\ pc[PutTask] = "idle")
        => /\ cache[last.target].val = PyFloat(1)
           /\ cache[last.target].alarm = "none"
           /\ cache[last.owner].alarm = "none"

\* A GET response with no token, or whose last token is not a number.
Malformed(line) ==
    LET toks == SplitWhitespace(line)
    IN  toks = <<>> \/ ~IsNumeral(toks[Len(toks)])

\* The exceptions the decoding of a response raises.
DecodeErrors == {"IndexError", "ValueError"}

\* C14: a malformed GET response (empty, blank, non-numeric last token) ends
\* the read with a decode error: the poll raises it, the polled pvproperty's
\* alarm shows the error, and no cached value changes.
C14_MalformedResponseIsDecodeError ==
    [][\A t \in DOMAIN pc :
          (/\ pc[t] = "close" /\ pc'[t] # "close"
           /\ req[t].op = "GET" /\ Malformed(resp[t].line))
            => /\ last'.outcome = "raised" /\ last'.err \in DecodeErrors
               /\ cache'[req[t].owner].alarm # "none"
               /\ \A e \in DOMAIN cache : cache'[e].val = cache[e].val]_vars

\* C15: a write is taken as acknowledged exactly when the response line is OK,
\* the line terminator the wire protocol sends not counting: the
\* acknowledgment test accepts the response a putter received if and only if
\* it is the line OK.
C15_AcknowledgedIffOK ==
    (pc[PutTask] = "close" /\ req[PutTask].op = "SET")
        => (AckOK(resp[PutTask].line) <=> IsAck(resp[PutTask].line))

\* The value token of a request: its last whitespace-separated token.
LastToken(text) ==
    LET toks == SplitWhitespace(text)
    IN  IF toks = <<>> THEN <<>> ELSE toks[Len(toks)]

\* C16: every SET for a boolean channel (DO, DIO) carries the value token 0 or
\* 1, whatever the type of the value handed to the write; every SET for an
\* analog channel carries the number handed in, unchanged.
C16_SetCarriesBitOrNumber ==
    last.op = "SET" =>
        IF last.bus \in {"DO", "DIO"}
        THEN LastToken(last.msg) \in {<<"0">>, <<"1">>}
        ELSE last.given.ty \in {"int", "float"}
                => LastToken(last.msg) = Render(last.given)

\* C17: a string value is sent as 1 when, ignoring case, it is on, 1 or true,
\* and as 0 otherwise.
C17_StringCoercedIgnoringCase ==
    (last.op = "SET" /\ last.given.ty = "str") =>
        LastToken(last.msg) =
            IF Lower(last.given.s) \in {<<"o", "n">>, <<"1">>, <<"t", "r", "u", "e">>}
            THEN <<"1">> ELSE <<"0">>

\* C18: a GET response whose last whitespace-separated token is a number is
\* decoded to that number, a typed value and never the raw text, whatever
\* whitespace separates the tokens.
C18_DecodesLastTokenAsNumber ==
    (last.op = "GET" /\ ~Malformed(last.line)) =>
        /\ last.outcome = "returned"
        /\ last.val = PyFloat(NumeralVal(LastToken(last.line)))

\* C19: a client's write to a pvproperty that is not write-capable (an input,
\* a sensor, a read-back) fails: nothing is sent and no cached value changes.
C19_WriteToReadOnlyFails ==
    [][(last'.op = "PUT" /\ events' = events + 1)
          => /\ last'.outcome = "raised"
             /\ conns' = conns /\ pc' = pc
             /\ \A e \in DOMAIN cache : cache'[e].val = cache[e].val]_vars

\* The channels' cache entries: every pvproperty but the round's bookkeeping.
ChannelEntries == DOMAIN cache \ {<<"timestamp", 0>>, <<"update_hook", 0>>}

\* The step ends a successful poll of the channel entry e belongs to.
SuccessfulPollOf(e) ==
    /\ last'.op = "GET" /\ last'.outcome = "returned"
    /\ last'.target = e /\ e \in OwnEntries(last'.bus, last'.pin)

\* The step ends an acknowledged write to entry e.
AcknowledgedWriteTo(e) ==
    /\ last'.op = "SET" /\ last'.outcome = "returned"
    /\ last'.owner = e /\ IsAck(last'.line)

\* C20: the cached value of a channel changes only in a step that ends a
\* successful poll of that channel or an acknowledged write to it.
C20_CacheChangesOnlyByPollOrWrite ==
    [][\A e \in ChannelEntries :
          cache'[e].val # cache[e].val
              => SuccessfulPollOf(e) \/ AcknowledgedWriteTo(e)]_vars

\* The step ends an exchange whose value is stored to the cache.
StoresPolledValue ==
    /\ last' # last
    /\ last'.op = "GET" /\ last'.outcome = "returned"
    /\ last'.target \in ChannelEntries

\* C21: a reader sees the timestamp and the values of the channels change
\* together: the timestamp changes only in a step that stores the value of the
\* exchange it is the time of, never in a step that leaves the older values
\* in place, and a step that stores a polled value brings the timestamp with it.
C21_TimestampChangesWithValue ==
    [][impl = "v1" =>
          (cache'[<<"timestamp", 0>>].val # cache[<<"timestamp", 0>>].val
               <=> StoresPolledValue)]_vars

\* The bus a pvproperty belongs to, by the stem of its name.
EntryBus(stem) ==
    CASE stem \in {"do", "do_RBV"} -> "DO" [] stem \in {"dio", "dio_RBV"} -> "DIO"
      [] stem \in {"di", "di_RBV"} -> "DI" [] stem \in {"ao", "ao_RBV"} -> "AO"
      [] stem \in {"ai", "ai_RBV"} -> "AI" [] stem = "t" -> "SENSOR temp"

\* The valid pins of a bus: as many as the controller has on it.
PinRange(bus) ==
    CASE bus \in {"DO", "DI", "DIO"} -> Pins(NDigital)
      [] bus = "AO" -> Pins(NAnalogOut)
      [] bus \in {"AI", "SENSOR temp"} -> Pins(NAnalogIn)

\* C22: every request addresses a pin inside the range of its bus, and every
\* channel of the catalog has a pin inside the range of its bus.
C22_PinsInsideBusRange ==
    /\ \A t \in DOMAIN req :
          req[t].op # "none" => req[t].pin \in PinRange(req[t].bus)
    /\ \A e \in ChannelEntries : e[2] \in PinRange(EntryBus(e[1]))

\* An exchange waits in recv on a controller that never answers: the thread is
\* held, no exchange of any channel ends, and the state lasts without limit.
SilentFor(t) == pc[t] = "recv" /\ resp[t].kind = "silent"

\* C24: a polled channel without a successful exchange for two of its poll
\* periods has health stale: while an exchange waits on a silent controller
\* for longer than that, every polled channel is marked stale.
C24_StaleWithoutSuccessfulExchange ==
    impl = "v2" =>
        \A t \in DOMAIN pc :
            SilentFor(t) => \A e \in ScannedV2 : cache[e].alarm = "stale"

\* The channels of data type boolean; the others are analog or temperature.
BooleanStems == {"do", "do_RBV", "dio", "dio_RBV", "di", "di_RBV"}

\* Value v has the data type of a channel with this stem: a boolean channel
\* holds a number or one of the enum strings of a bool record, an analog or
\* temperature channel a number. A value never set has no type yet.
HasDataType(stem, v) ==
    \/ v = InitVal
    \/ v.ty \in {"int", "float"}
    \/ stem \in BooleanStems
         /\ (v.ty = "bool" \/ v \in {PyStr(<<"O", "n">>), PyStr(<<"O", "f", "f">>)})

\* C25: each channel's cached value has the channel's data type.
C25_CachedValueHasDataType ==
    \A e \in ChannelEntries : HasDataType(e[1], cache[e].val)

\* Task t is outside any call of the read or write function.
Outside(p) == p \in {"idle", "sleep", "stopped"}

\* The step returns from a read of the polling round of v1 and the loop of
\* update_pin_status calls the read function again, for its next position.
NextReadOfRound(t) ==
    /\ t = HookTask /\ pc[t] = "close"
    /\ last'.task = t /\ last'.outcome = "returned"
    /\ loc' = NextLoc(loc)

\* C28: no retries: a call of the read or write function goes once through
\* connect, send, receive and close and never back; when a step fails, or the
\* acknowledgment is not OK, the call ends without a second connection or a
\* second request.
C28_NoRetries ==
    [][\A t \in DOMAIN pc :
          /\ pc[t] = "connect" => pc'[t] = "connect" \/ pc'[t] = "send" \/ Outside(pc'[t])
          /\ pc[t] = "send" => pc'[t] = "send" \/ pc'[t] = "recv" \/ Outside(pc'[t])
          /\ pc[t] = "recv" => pc'[t] = "recv" \/ pc'[t] = "close" \/ Outside(pc'[t])
          /\ pc[t] = "close" => pc'[t] = "close" \/ Outside(pc'[t]) \/ NextReadOfRound(t)
          /\ (last' # last /\ last'.task = t /\ last'.outcome = "raised")
                 => Outside(pc'[t])]_vars

\* A write was answered with a line other than OK, and its call has ended.
C28_Witness ==
    /\ last.op = "SET" /\ last.task = PutTask
    /\ last.line # <<>> /\ ~IsAck(last.line)
    /\ pc[PutTask] = "idle" /\ conns = {}

\* C27: each exchange closes the connection it opened, on every path: once an
\* exchange has ended, with a response or with a failure of send, receive or
\* decoding, no socket it connected is left without close(), and the
\* controller holds no connection of a task that is outside an exchange.
C27_ClosedOnEveryPath ==
    /\ unclosed = 0
    /\ \A t \in conns : ~Outside(pc[t])

\* The words of each bus token on the wire.
BusWords(bus) ==
    CASE bus = "DO" -> << <<"D", "O">> >> [] bus = "DI" -> << <<"D", "I">> >>
      [] bus = "DIO" -> << <<"D", "I", "O">> >> [] bus = "AO" -> << <<"A", "O">> >>
      [] bus = "AI" -> << <<"A", "I">> >>
      [] bus = "SENSOR temp" ->
           << <<"S", "E", "N", "S", "O", "R">>, <<"t", "e", "m", "p">> >>

\* The words of a message that ends with its only newline; <<>> otherwise.
WordsOfLine(msg) ==
    IF msg # <<>> /\ msg[Len(msg)] = "\n"
          /\ \A k \in 1..(Len(msg) - 1) : msg[k] # "\n"
    THEN SplitSpace(SubSeq(msg, 1, Len(msg) - 1))
    ELSE <<>>

\* C26: a read request is GET, the bus token, the pin and a newline, a write
\* request SET, the bus token, the pin, the value and a newline; the bus token
\* of a temperature channel is the two words SENSOR temp, and temperature
\* channels exist for the pins of the analog inputs only.
C26_RequestFormat ==
    /\ last.op = "GET" =>
          WordsOfLine(last.msg)
              = << <<"G", "E", "T">> >> \o BusWords(last.bus) \o <<IntText(last.pin)>>
    /\ last.op = "SET" =>
          WordsOfLine(last.msg)
              = << <<"S", "E", "T">> >> \o BusWords(last.bus)
                    \o <<IntText(last.pin), Render(last.val)>>
    /\ \A e \in Entries(impl) :
          e[1] = "t" => e[2] \in Pins(NAnalogIn) /\ BusOf(e[1]) = "SENSOR temp"

\* The read of temperature sensor 0 has composed its request.
C26_Witness ==
    /\ last.op = "GET" /\ last.bus = "SENSOR temp" /\ last.pin = 0
    /\ last.msg = <<"G", "E", "T", " ", "S", "E", "N", "S", "O", "R", " ",
                    "t", "e", "m", "p", " ", "0", "\n">>

\* C29: the response an exchange decodes is the controller's complete line:
\* a read that returns a value has decoded the whole line that was sent, also
\* when the transport delivered it in fragments, never a prefix of it.
C29_DecodesCompleteLine ==
    (last.op = "GET" /\ last.outcome = "returned") => last.line = last.wire

\* C23: construction of the catalog fails for a duplicate name: of the
\* definitions construction has accepted no two have the same name, and each
\* is still the one its name is bound to (none was replaced by a later one).
C23_DuplicateNameRejected ==
    build.file = "v2" =>
        \A p \in 1..build.pos :
            /\ \A q \in 1..build.pos : ClassBodyV2[p] = ClassBodyV2[q] => p = q
            /\ <<ClassBodyV2[p], p>> \in build.ns

\* A loop-generated callback has been called.
CallbackCalled == build.file = "old" /\ build.called.kind # "none"

\* C30 as the code has it: the index of a loop-generated callback is bound when
\* the callback is defined (index=i is a default of its parameter), so a
\* callback generated for channel index i runs with index i, whatever the
\* loop variable holds when it is called.
C30_CallbackRunsWithItsOwnIndex ==
    CallbackCalled => build.called.index = build.called.made_for

\* A callback generated for an index other than the last one of the loop has
\* been called after the loop ended.
C30_Witness ==
    /\ CallbackCalled /\ build.returned
    /\ build.called.made_for # build.i

\* C30 as stated: the callbacks are bound late over the loop variable: a
\* callback called after the loop runs with the value the loop variable has
\* then, the last index of the loop.
C30_BoundLateOverLoopVariable ==
    CallbackCalled => build.called.index = build.i

\* The polling tasks that have a read outstanding.
OutstandingReads == {t \in DOMAIN pc : ~IsPut(t) /\ ~Outside(pc[t])}

\* The step calls the scan callback of task t: a timer firing, not the next
\* read of a round under way.
PollIssued(t) ==
    /\ ~IsPut(t) /\ pc'[t] = "connect"
    /\ pc[t] # "connect" \/ (t = HookTask /\ loc' # loc)
    /\ ~NextReadOfRound(t)

\* C31: at most one read is in flight per channel: the callback of a scan is
\* called only when the outcome of its previous call is known (the task is
\* asleep, nothing of it open or pending), so the outstanding reads are never
\* more than the polled channels.
C31_OneReadPerChannel ==
    [][/\ \A t \in DOMAIN pc :
             PollIssued(t) => /\ pc[t] = "sleep"
                              /\ req[t] = NoReq /\ t \notin conns
       /\ Cardinality(OutstandingReads)
              <= Cardinality(IF impl = "v2" THEN ScannedV2 ELSE PolledEntriesV1)]_vars

\* A scan is called a second time, after its first call has ended: the read
\* that ended last is issued again.
C31_Witness ==
    \E t \in DOMAIN pc :
        /\ ~IsPut(t) /\ pc[t] = "connect" /\ events = 2
        /\ last.task = t /\ last.outcome \in {"returned", "raised"}
        /\ req[t].bus = last.bus /\ req[t].pin = last.pin
        /\ last.target \in {NoEntry, req[t].target}

\* The output of the controller a channel stands for, by the channel's name:
\* the bus of its stem and the number that ends it.
OutputOf(e) == <<EntryBus(e[1]), e[2]>>

\* The step ends a poll of channel e that returned a value.
PollReturned(e) ==
    /\ last' # last /\ last'.op = "GET" /\ last'.outcome = "returned"
    /\ last'.task = <<"scan", e[1], e[2]>>

\* C32: in v2 the putter and the scan of a writable channel address the same
\* bus and pin, those of the channel's name: an output of the controller is
\* changed only by a write through its own channel, to the value written, and
\* a poll of the channel reads back the value last written through it.
C32_PollReadsBackWhatWasWritten ==
    [][impl = "v2" =>
          /\ \A o \in DOMAIN dev :
                dev'[o] # dev[o]
                    => /\ pc[PutTask] = "send" /\ pc'[PutTask] = "recv"
                       /\ OutputOf(req[PutTask].owner) = o
                       /\ dev'[o] = CoerceV2(req[PutTask].given).n
          /\ \A e \in Writable("v2") :
                (PollReturned(e) /\ dev[OutputOf(e)] >= 0)
                    => last'.val = PyFloat(dev[OutputOf(e)])]_vars

\* A write through a channel was acknowledged and stored, and a later poll of
\* the channel has read the written value back.
C32_Witness ==
    /\ impl = "v2"
    /\ last.op = "GET" /\ last.outcome = "returned"
    /\ last.owner \in Writable("v2") /\ last.task = <<"scan", last.owner[1], last.owner[2]>>
    /\ dev[OutputOf(last.owner)] >= 0
    /\ cache[last.owner].val # InitVal
    /\ last.val = PyFloat(dev[OutputOf(last.owner)])

\* The read-back entry of an output or bidirectional channel.
ReadbackOf(e) ==
    CASE e[1] = "do" -> <<"do_RBV", e[2]>> [] e[1] = "dio" -> <<"dio_RBV", e[2]>>
      [] e[1] = "ao" -> <<"ao_RBV", e[2]>>

\* The step is one of the poll of channel e: its scan task moves.
PollStep(e) ==
    LET t == <<"scan", e[1], e[2]>>
    IN  pc'[t] # pc[t] \/ req'[t] # req[t] \/ (last' # last /\ last'.task = t)

\* C33: in v2 a poll of an output or bidirectional channel changes only the
\* value of the channel's read-back entry: the setpoint entry, and every other
\* entry, keeps the value it had.
C33_PollChangesOnlyReadback ==
    [][impl = "v2" =>
          \A e \in Writable("v2") :
              PollStep(e) =>
                  \A x \in DOMAIN cache \ {ReadbackOf(e)} :
                      cache'[x].val = cache[x].val]_vars

\* A poll of a channel has stored a reading in the read-back entry while the
\* setpoint entry holds the value a client wrote, which differs from it.
C33_Witness ==
    /\ impl = "v2"
    /\ last.op = "GET" /\ last.outcome = "returned"
    /\ last.owner \in Writable("v2") /\ last.target = ReadbackOf(last.owner)
    /\ cache[last.owner].val \in PutValues(last.owner)
    /\ cache[last.target].val = last.val
    /\ cache[last.target].val # cache[last.owner].val

\* The place of a read in the fixed order of a round: DO, DI, AI, DIO.
Rank(l) ==
    CASE l.loop = "DO" -> l.i
      [] l.loop = "DI" -> NDigital + l.i
      [] l.loop = "AI" -> 2 * NDigital + l.i
      [] l.loop = "DIO" -> 2 * NDigital + NAnalogIn + l.i
      [] OTHER -> -1

LastRank == 3 * NDigital + NAnalogIn - 1

TimestampEntry == <<"timestamp", 0>>

\* C34: in v1 a firing of update_hook writes the timestamp before any GET is
\* issued, and the reads follow in the order DO, DI, AI, DIO, each bus from its
\* pin 0 upwards; when a read fails the round ends there, the timestamp having
\* advanced, and no value of the cache changes.
C34_TimestampThenReadsInOrder ==
    [][impl = "v1" =>
          /\ (pc[HookTask] = "sleep" /\ pc'[HookTask] = "connect")
                => /\ cache'[TimestampEntry].val # cache[TimestampEntry].val
                   /\ Rank(loc') = 0 /\ req'[HookTask].bus = "DO"
                   /\ req'[HookTask].pin = 0 /\ HookTask \notin conns'
          /\ (pc[HookTask] = "close" /\ pc'[HookTask] = "connect")
                => /\ Rank(loc') = Rank(loc) + 1
                   /\ req'[HookTask].bus = loc'.loop
                   /\ loc'.loop # "DIO" => req'[HookTask].pin = loc'.i
          /\ (pc[HookTask] = "close" /\ pc'[HookTask] = "sleep")
                => Rank(loc) = LastRank
          /\ (last' # last /\ last'.task = HookTask /\ last'.outcome = "raised")
                => /\ cache[TimestampEntry].val # InitVal
                   /\ \A e \in DOMAIN cache : cache'[e].val = cache[e].val
                   /\ pc'[HookTask] = "sleep" /\ Rank(loc') = -1]_vars

\* The second read of a round failed: the timestamp is that of the round, the
\* first read's value is stored and the value of the failed read is not.
C34_Witness ==
    /\ impl = "v1"
    /\ last.task = HookTask /\ last.outcome = "raised"
    /\ last.bus = "DO" /\ last.pin = 1
    /\ cache[TimestampEntry].val = PyInt(1)
    /\ cache[<<"do_RBV", 0>>].val # InitVal
    /\ cache[<<"do_RBV", 1>>].val = InitVal

====
